---- MODULE Spec2Model ----
(***************************************************************************)
(* A model of blaze/compute/bcolz.py: the bcolz backend of blaze.  The     *)
(* module covers the chunk generator (chunks, get_chunk), the streaming    *)
(* reductions (mean, var, std), the chunked pipeline compute_down, the     *)
(* cheap direct path compute_down(Head), and the memory-gated compute_up   *)
(* handlers for Selection and Reduction.                                   *)
(***************************************************************************)
EXTENDS Integers, Sequences, FiniteSets, TLC

VARIABLES
    call,          \* the entry point being executed
    pc,            \* position inside that entry point
    data,          \* the bcolz carray / ctable column, as a sequence of integers
    chunksize,     \* the chunksize argument of the call
    expr,          \* the expression handed to the call
    env,           \* what the call reads from its environment (memory, map, evaluator)
    start,         \* chunks(): the generator's local `start`
    yielded,       \* chunks(): the slices yielded so far, as index ranges
    acc,           \* var: the running builtins.sum over the chunks
    pending,       \* compute_down: partitions the map strategy has not evaluated yet
    completed,     \* compute_down: chunk results in the order they were completed
    parts,         \* compute_down: the list returned by map(...)
    intermediate,  \* compute_down: the merged chunk results
    trace,         \* the handlers / strategies that have run, in order
    outcome        \* what the call returned or raised

vars == <<call, pc, data, chunksize, expr, env, start, yielded, acc,
          pending, completed, parts, intermediate, trace, outcome>>

(***************************************************************************)
(* Bounds of the model.                                                    *)
(***************************************************************************)
MaxLen == 3        \* longest enumerated dataset
MaxVal == 2        \* enumerated datasets hold values 1..MaxVal
MaxChunk == 3      \* chunk sizes 1..MaxChunk
MaxDepth == 3      \* expression paths hold at most MaxDepth nodes above the leaf
MaxAvail == 16     \* available_memory() ranges over 0..MaxAvail bytes
ItemSize == 2      \* bytes per element of the modelled column

Values == 1..MaxVal
ChunkSizes == 1..MaxChunk

SeqsUpTo(S, n) == UNION {[1..k -> S] : k \in 0..n}

\* The two scenario datasets of the specification's section 8.
Scenario10 == <<1, 2, 3, 4, 5, 6, 7, 8, 9, 10>>
Scenario5 == <<1, 1, 2, 2, 3>>

Datasets == SeqsUpTo(Values, MaxLen)

(***************************************************************************)
(* Python helpers.                                                         *)
(***************************************************************************)
Min(a, b) == IF a <= b THEN a ELSE b
Max(a, b) == IF a >= b THEN a ELSE b
Abs(a) == IF a < 0 THEN -a ELSE a

RECURSIVE GCD(_, _)
GCD(a, b) == IF b = 0 THEN a ELSE GCD(b, a % b)

CeilDiv(a, b) == (a + b - 1) \div b

\* b[lo:hi] for 0 <= lo: both ends are clamped to the length.
SliceRange(n, lo, hi) == [lo |-> Min(lo, n), hi |-> Max(Min(lo, n), Min(hi, n))]
Slice(s, lo, hi) == SubSeq(s, SliceRange(Len(s), lo, hi).lo + 1,
                              SliceRange(Len(s), lo, hi).hi)

\* Sums over the index range lo..hi of s, split in halves so that long
\* arrays do not need deep recursion.
RECURSIVE SumOver(_, _, _)
SumOver(s, lo, hi) ==
    IF lo > hi THEN 0
    ELSE IF lo = hi THEN s[lo]
    ELSE LET mid == (lo + hi) \div 2
         IN  SumOver(s, lo, mid) + SumOver(s, mid + 1, hi)

RECURSIVE SumSqOver(_, _, _)
SumSqOver(s, lo, hi) ==
    IF lo > hi THEN 0
    ELSE IF lo = hi THEN s[lo] * s[lo]
    ELSE LET mid == (lo + hi) \div 2
         IN  SumSqOver(s, lo, mid) + SumSqOver(s, mid + 1, hi)

SeqSum(s) == SumOver(s, 1, Len(s))
SeqSumSq(s) == SumSqOver(s, 1, Len(s))

Range(s) == {s[i] : i \in 1..Len(s)}

(***************************************************************************)
(* Numbers.  A number is a rational num/den tagged with its Python type:   *)
(* np = TRUE for a numpy scalar, FALSE for a Python int / float.  den = 0  *)
(* is a non-finite numpy value (num = 0: NaN, otherwise +-Inf).            *)
(* sqrt = TRUE means the value is the square root of num/den.              *)
(***************************************************************************)
Num(np, num, den) ==
    IF den = 0
    THEN [np |-> np, num |-> IF num > 0 THEN 1 ELSE IF num < 0 THEN -1 ELSE 0,
          den |-> 0, sqrt |-> FALSE]
    ELSE LET g == GCD(Abs(num), den)
         IN  [np |-> np, num |-> num \div g, den |-> den \div g, sqrt |-> FALSE]

PyNum(i) == Num(FALSE, i, 1)
NpNum(i) == Num(TRUE, i, 1)
PyFloat(x) == [x EXCEPT !.np = FALSE]          \* float(x)

IsFinite(x) == x.den # 0
IsNaN(x) == x.den = 0 /\ x.num = 0

IsInf(x) == x.den = 0 /\ x.num # 0
NumNeg(x) == [x EXCEPT !.num = -x.num]

\* IEEE: NaN is absorbing, Inf + Inf = Inf, Inf + (-Inf) = NaN, Inf + finite = Inf.
NumAdd(x, y) ==
    IF IsNaN(x) \/ IsNaN(y) THEN Num(x.np \/ y.np, 0, 0)
    ELSE IF IsInf(x) /\ IsInf(y)
    THEN Num(x.np \/ y.np, IF x.num = y.num THEN x.num ELSE 0, 0)
    ELSE IF IsInf(x) THEN Num(x.np \/ y.np, x.num, 0)
    ELSE IF IsInf(y) THEN Num(x.np \/ y.np, y.num, 0)
    ELSE Num(x.np \/ y.np, x.num * y.den + y.num * x.den, x.den * y.den)
NumSub(x, y) == NumAdd(x, NumNeg(y))
\* Inf * 0 = NaN and NaN is absorbing: both come out as 0/0.
NumMul(x, y) == Num(x.np \/ y.np, x.num * y.num, x.den * y.den)

\* x / y under true division.  Python numbers raise ZeroDivisionError on a
\* zero divisor; a numpy scalar operand makes it a numpy division, which
\* returns NaN / Inf (with a RuntimeWarning) instead of raising.
IsZero(x) == x.num = 0 /\ x.den # 0
DivRaises(x, y) == IsZero(y) /\ ~x.np /\ ~y.np
\* The quotient when nothing is raised: NaN is absorbing, Inf / Inf = NaN,
\* finite / Inf = 0, x / 0 = NaN or +-Inf (numpy).
NumDiv(x, y) ==
    IF IsNaN(x) \/ IsNaN(y) THEN Num(x.np \/ y.np, 0, 0)
    ELSE IF IsInf(y)
    THEN (IF IsInf(x) THEN Num(x.np \/ y.np, 0, 0) ELSE Num(x.np \/ y.np, 0, 1))
    ELSE IF IsZero(y) THEN Num(x.np \/ y.np, x.num, 0)
    ELSE IF y.num > 0 THEN Num(x.np \/ y.np, x.num * y.den, x.den * y.num)
    ELSE Num(x.np \/ y.np, -(x.num * y.den), x.den * (-y.num))

\* math.sqrt(x): NaN stays NaN, a negative argument is a ValueError.
SqrtRaises(x) == (IsFinite(x) /\ x.num < 0) \/ (x.den = 0 /\ x.num < 0)
NumSqrt(x) == IF IsFinite(x) THEN [x EXCEPT !.sqrt = TRUE, !.np = FALSE]
              ELSE [x EXCEPT !.np = FALSE]

(***************************************************************************)
(* Outcomes of a call.                                                     *)
(***************************************************************************)
NoOutcome == [status |-> "none", val |-> 0, wraps |-> 0, exc |-> ""]
Return(v, w) == [status |-> "value", val |-> v, wraps |-> w, exc |-> ""]
Raise(e) == [status |-> "raised", val |-> 0, wraps |-> 0, exc |-> e]

\* result = np.array([result]) when expr.keepdims
KeepDims(e, out) ==
    IF out.status = "value" /\ e.keepdims
    THEN [out EXCEPT !.wraps = @ + 1] ELSE out

NoExpr == [op |-> "none", keepdims |-> FALSE, unbiased |-> 0]
NoEnv == [avail |-> 0]

\* `parts` before map(...) has returned.
NoParts == [kind |-> "none", items |-> <<>>]

(***************************************************************************)
(* chunks / get_chunk (lines 183-196).                                     *)
(***************************************************************************)
\* A plausible slip: stopping as soon as a full chunk no longer fits.
ChunksContinueFullOnly(st, n, c) == st + c <= n

\* while start < n
ChunksContinue(st, n, c) == st < n

\* get_chunk(b, i, chunksize): b[chunksize * i : chunksize * (i + 1)]
get_chunk_range(n, i, c) == SliceRange(n, c * i, c * (i + 1))
get_chunk(b, i, c) == Slice(b, c * i, c * (i + 1))

\* def chunks(b, chunksize=2**15)
DefaultChunksize == 32768

\* The chunk size the generator runs with: the argument of a chunks(b, c)
\* call; inside var (and std, through var) the call is chunks(ba), so the
\* default, whatever chunksize the var call itself was given.
GenChunksize == IF call = "chunks" THEN chunksize ELSE DefaultChunksize

\* The loop condition holds: yield b[start:start + chunksize].  The generator
\* is suspended at the yield; start is not advanced yet.
ChunksYield ==
    /\ call \in {"chunks", "var", "std"}
    /\ pc = "iter"
    /\ ChunksContinue(start, Len(data), GenChunksize)
    /\ yielded' = Append(yielded, SliceRange(Len(data), start, start + GenChunksize))
    /\ pc' = IF call = "chunks" THEN "resume" ELSE "yield"
    /\ UNCHANGED <<call, data, chunksize, expr, env, start, acc, pending, completed,
                   parts, intermediate, trace, outcome>>

\* Inside var the consumer, builtins.sum over the generator expression, adds
\* (chunk * chunk).sum(), a numpy scalar, for the chunk just yielded.
SumConsume ==
    /\ call \in {"var", "std"}
    /\ pc = "yield"
    /\ LET chunk == yielded[Len(yielded)]
       IN  acc' = NumAdd(acc, NpNum(SumSqOver(data, chunk.lo + 1, chunk.hi)))
    /\ pc' = "resume"
    /\ UNCHANGED <<call, data, chunksize, expr, env, start, yielded, pending,
                   completed, parts, intermediate, trace, outcome>>

\* The generator is resumed: start += chunksize, back to the loop condition.
ChunksResume ==
    /\ call \in {"chunks", "var", "std"}
    /\ pc = "resume"
    /\ start' = start + GenChunksize
    /\ pc' = "iter"
    /\ UNCHANGED <<call, data, chunksize, expr, env, yielded, acc, pending,
                   completed, parts, intermediate, trace, outcome>>

\* The loop condition fails: the generator is exhausted.
ChunksStop ==
    /\ call \in {"chunks", "var", "std"}
    /\ pc = "iter"
    /\ ~ChunksContinue(start, Len(data), GenChunksize)
    /\ pc' = IF call = "chunks" THEN "done" ELSE "reduce"
    /\ UNCHANGED <<call, data, chunksize, expr, env, start, yielded, acc, pending,
                   completed, parts, intermediate, trace, outcome>>

(***************************************************************************)
(* mean, var, std on a carray (lines 111-136).                             *)
(***************************************************************************)
\* ba.sum(): bcolz returns a numpy scalar, also for an empty array.
carray_sum(ba) == NpNum(SeqSum(ba))

\* result = ba.sum() / ba.len
mean_result(ba) ==
    IF DivRaises(carray_sum(ba), PyNum(Len(ba)))
    THEN Raise("ZeroDivisionError")
    ELSE Return(NumDiv(carray_sum(ba), PyNum(Len(ba))), 0)

\* A plausible slip: the unbiased flag is ignored.
var_result_biased(n, E_X_2, E_X, unbiased) ==
    IF DivRaises(NumMul(E_X, E_X), PyNum(n)) THEN Raise("ZeroDivisionError")
    ELSE LET t == NumSub(E_X_2, NumDiv(NumMul(E_X, E_X), PyNum(n)))
         IN  IF DivRaises(t, PyNum(n)) THEN Raise("ZeroDivisionError")
             ELSE Return(NumDiv(t, PyNum(n)), 0)

\* result = (E_X_2 - (E_X * E_X) / n) / (n - expr.unbiased)
var_result(n, E_X_2, E_X, unbiased) ==
    IF DivRaises(NumMul(E_X, E_X), PyNum(n)) THEN Raise("ZeroDivisionError")
    ELSE LET t == NumSub(E_X_2, NumDiv(NumMul(E_X, E_X), PyNum(n)))
         IN  IF DivRaises(t, PyNum(n - unbiased)) THEN Raise("ZeroDivisionError")
             ELSE Return(NumDiv(t, PyNum(n - unbiased)), 0)

\* result = math.sqrt(result)
std_result(v) ==
    IF v.status # "value" THEN v
    ELSE IF SqrtRaises(v.val) THEN Raise("ValueError")
    ELSE Return(NumSqrt(v.val), 0)

compute_up_mean ==
    /\ call = "mean"
    /\ pc = "call"
    /\ outcome' = KeepDims(expr, mean_result(data))
    /\ trace' = Append(trace, "mean")
    /\ pc' = "done"
    /\ UNCHANGED <<call, data, chunksize, expr, env, start, yielded, acc, pending,
                   completed, parts, intermediate>>

\* The part of compute_up(var) after the chunks have been summed.
compute_up_var ==
    /\ call = "var"
    /\ pc = "reduce"
    /\ outcome' = KeepDims(expr, var_result(Len(data), acc,
                                            PyFloat(carray_sum(data)), expr.unbiased))
    /\ trace' = Append(trace, "var")
    /\ pc' = "done"
    /\ UNCHANGED <<call, data, chunksize, expr, env, start, yielded, acc, pending,
                   completed, parts, intermediate>>

\* compute_up(std): the var handler on expr._child.var(unbiased=expr.unbiased),
\* whose keepdims is the default False, then the square root.
compute_up_std ==
    /\ call = "std"
    /\ pc = "reduce"
    /\ outcome' = KeepDims(expr, std_result(var_result(Len(data), acc,
                                 PyFloat(carray_sum(data)), expr.unbiased)))
    /\ trace' = Append(trace, "var") \o <<"std">>
    /\ pc' = "done"
    /\ UNCHANGED <<call, data, chunksize, expr, env, start, yielded, acc, pending,
                   completed, parts, intermediate>>

\* An array one element longer than the generator's chunk: var reads it in
\* two chunks.
LongData == [i \in 1..(DefaultChunksize + 1) |->
                IF i = 1 THEN 1 ELSE IF i = DefaultChunksize + 1 THEN 2 ELSE 0]

StatDatasets == Datasets \cup {Scenario10, Scenario5}

InitChunks ==
    /\ call \in {"chunks", "mean", "var", "std"}
    /\ data \in (IF call \in {"var", "std"} THEN StatDatasets \cup {LongData}
                 ELSE StatDatasets)
    /\ chunksize \in (IF call = "mean" THEN {1} ELSE ChunkSizes)
    /\ expr \in (IF call = "chunks" THEN {NoExpr}
                 ELSE [op : {call},
                       keepdims : IF data = LongData THEN {FALSE} ELSE BOOLEAN,
                       unbiased : IF call = "mean" THEN {0} ELSE {0, 1}])
    /\ pc = (IF call = "mean" THEN "call" ELSE "iter")
    /\ env = NoEnv
    /\ start = 0
    /\ yielded = <<>>
    /\ acc = PyNum(0)
    /\ pending = {}
    /\ completed = <<>>
    /\ parts = NoParts
    /\ intermediate = <<>>
    /\ trace = <<>>
    /\ outcome = NoOutcome

NextChunks ==
    \/ ChunksYield
    \/ SumConsume
    \/ ChunksResume
    \/ ChunksStop
    \/ compute_up_mean
    \/ compute_up_var
    \/ compute_up_std

SpecChunks == InitChunks /\ [][NextChunks]_vars

\* The generator on its own, iterated by a plain for loop.
InitGenerator == InitChunks /\ call = "chunks"

NextGenerator ==
    \/ ChunksYield
    \/ ChunksResume
    \/ ChunksStop

SpecGenerator == InitGenerator /\ [][NextGenerator]_vars

\* The generator is consumed to exhaustion by the loop that iterates it.
FairSpecGenerator ==
    SpecGenerator /\ WF_vars(ChunksYield) /\ WF_vars(ChunksResume) /\ WF_vars(ChunksStop)

(***************************************************************************)
(* C1: chunks(b, c) terminates and yields exactly ceil(L/c) slices, the    *)
(* i-th being [i*c, min((i+1)*c, L)) (the range get_chunk(b, i, c) reads), *)
(* in increasing order: pairwise disjoint, covering [0, L) exactly, only   *)
(* the last possibly shorter than c, and none at all when L = 0.           *)
(***************************************************************************)
Covered(ys) == UNION {(ys[i].lo)..(ys[i].hi - 1) : i \in 1..Len(ys)}

ChunksExact ==
    (call = "chunks" /\ pc = "done") =>
        LET L == Len(data)
            c == chunksize
            k == Len(yielded)
        IN  /\ k = CeilDiv(L, c)
            /\ (L = 0 => yielded = <<>>)
            /\ \A i \in 1..k :
                  /\ yielded[i] = [lo |-> (i - 1) * c, hi |-> Min(i * c, L)]
                  /\ yielded[i] = get_chunk_range(L, i - 1, c)
                  /\ Slice(data, yielded[i].lo, yielded[i].hi) = get_chunk(data, i - 1, c)
                  /\ yielded[i].lo < yielded[i].hi
                  /\ (i < k => yielded[i].hi - yielded[i].lo = c)
                  /\ (i < k => yielded[i].hi = yielded[i + 1].lo)
            /\ Covered(yielded) = 0..(L - 1)
            /\ \A i, j \in 1..k :
                  i < j => (yielded[i].lo)..(yielded[i].hi - 1)
                              \cap (yielded[j].lo)..(yielded[j].hi - 1) = {}

C1_ChunksPartition ==
    /\ []ChunksExact
    /\ (call = "chunks") ~> (call = "chunks" /\ pc = "done")

C1_Witness ==
    /\ call = "chunks" /\ pc = "done"
    /\ Len(yielded) >= 2
    /\ yielded[Len(yielded)].hi - yielded[Len(yielded)].lo < chunksize

(***************************************************************************)
(* C5: over an empty array each of mean, var and std ends in a division by *)
(* zero error raised to the caller; none of them returns a value.          *)
(***************************************************************************)
C5_EmptyRaises ==
    (call \in {"mean", "var", "std"} /\ pc = "done" /\ Len(data) = 0) =>
        (outcome.status = "raised" /\ outcome.exc = "ZeroDivisionError")

(***************************************************************************)
(* C8: the variance of a non-empty array is                                *)
(* (sum x^2 - (sum x)^2 / n) / (n - unbiased), the sum of squares being    *)
(* accumulated chunk by chunk over chunks(ba); the value does not depend   *)
(* on the chunksize the call was given, and std is its square root under   *)
(* the same unbiased flag; for 1..10, unbiased, that is 82.5 / 9 = 55 / 6. *)
(***************************************************************************)
C8_VarianceFormula ==
    (call \in {"var", "std"} /\ pc = "done" /\ Len(data) > 0) =>
        LET n == Len(data)
            d == n - expr.unbiased
            Sx == SeqSum(data)
            Sxx == SeqSumSq(data)
            g == GCD(n * Sxx - Sx * Sx, n * d)
            v == outcome.val
        IN  /\ outcome.status = "value"
            /\ IF d = 0 THEN IsNaN(v)
               ELSE /\ IsFinite(v)
                    /\ v.num = (n * Sxx - Sx * Sx) \div g
                    /\ v.den = (n * d) \div g
                    /\ v.sqrt = (call = "std")
            /\ (data = Scenario10 /\ expr.unbiased = 1) => (v.num = 55 /\ v.den = 6)
            /\ (data = Scenario10 /\ expr.unbiased = 0) => (v.num = 33 /\ v.den = 4)

\* var over an array of 2**15 + 1 elements: two chunks were summed.
C8_Witness ==
    /\ call = "std" /\ pc = "done"
    /\ Len(data) = DefaultChunksize + 1
    /\ Len(yielded) = 2
    /\ yielded[2] = [lo |-> DefaultChunksize, hi |-> DefaultChunksize + 1]
    /\ acc.num = 5
    /\ outcome.status = "value" /\ outcome.val.sqrt

(***************************************************************************)
(* The chunked pipeline compute_down(Expr, carray/ctable) (lines 204-228). *)
(***************************************************************************)
\* partitions(data, chunksize=(chunksize,)): the ordered index ranges of
\* blaze.partition, ceil(L / c) of them, none for an empty source.
partitions(L, c) == [i \in 1..CeilDiv(L, c) |-> [lo |-> (i - 1) * c, hi |-> Min(i * c, L)]]

\* Values in order of first occurrence.
RECURSIVE Distinct(_)
Distinct(s) ==
    IF s = <<>> THEN <<>>
    ELSE LET d == Distinct(SubSeq(s, 1, Len(s) - 1))
             x == s[Len(s)]
         IN  IF x \in Range(d) THEN d ELSE Append(d, x)

\* split(leaf, expr, chunk=chunk): what chunk_expr computes on one chunk ...
chunk_expr(op, part) ==
    CASE op = "sum" -> <<SeqSum(part)>>
      [] op = "count" -> <<Len(part)>>
      [] op = "nunique" -> Distinct(part)
      [] op = "elemwise" -> [i \in 1..Len(part) |-> part[i] + 1]

\* ... and what agg_expr computes on the merged intermediate.
agg_expr(op, items) ==
    CASE op = "sum" -> SeqSum(items)
      [] op = "count" -> SeqSum(items)
      [] op = "nunique" -> Cardinality(Range(items))
      [] op = "elemwise" -> items

\* The expression evaluated once over the whole dataset.
Direct(op, xs) ==
    CASE op = "sum" -> SeqSum(xs)
      [] op = "count" -> Len(xs)
      [] op = "nunique" -> Cardinality(Range(xs))
      [] op = "elemwise" -> [i \in 1..Len(xs) |-> xs[i] + 1]

\* compute_chunk: part = source[data_index]; compute(chunk_expr, {chunk: part}).
\* rtype is the container the evaluator hands back.
compute_chunk(source, op, rtype, data_index) ==
    [type |-> rtype, items |-> chunk_expr(op, Slice(source, data_index.lo, data_index.hi))]

\* The injected `map`.  "map" is the default, the builtin: on Python 2 it
\* evaluates every chunk in partition order and returns a list, on Python 3
\* it evaluates nothing and returns a lazy map object.  A pool's map may
\* evaluate in any order and returns a list.
MapStrategies == {"map", "pool_map", "unordered_map"}
PythonVersions == {"py2", "py3"}

IsLazy(strategy, python) == strategy = "map" /\ python = "py3"

MayEvaluate(strategy, python, i, todo) ==
    /\ ~IsLazy(strategy, python)
    /\ (strategy = "map" => \A j \in todo : i <= j)

RECURSIVE InPartitionOrder(_)
InPartitionOrder(done) ==
    IF done = <<>> THEN <<>>
    ELSE LET m == CHOOSE k \in 1..Len(done) : \A j \in 1..Len(done) : done[k].idx <= done[j].idx
         IN  <<done[m].res>> \o InPartitionOrder([j \in 1..(Len(done) - 1) |->
                                                  IF j < m THEN done[j] ELSE done[j + 1]])

InCompletionOrder(done) == [j \in 1..Len(done) |-> done[j].res]

\* parts = map(curry(compute_chunk, data, chunk, chunk_expr), data_parts):
\* what the strategy returns.  Python 2's map and Pool.map return a list in
\* argument order; an unordered strategy returns a list in completion order;
\* Python 3's map returns a map object.  compute_down uses it as returned.
MapReturns(strategy, python, done) ==
    IF IsLazy(strategy, python) THEN [kind |-> "map", items |-> <<>>]
    ELSE IF strategy = "unordered_map"
    THEN [kind |-> "list", items |-> InCompletionOrder(done)]
    ELSE [kind |-> "list", items |-> InPartitionOrder(done)]

RECURSIVE ItemsOf(_)
ItemsOf(ps) == IF ps = <<>> THEN <<>> ELSE ps[1].items \o ItemsOf(Tail(ps))

RECURSIVE Reversed(_)
Reversed(s) == IF s = <<>> THEN <<>> ELSE Append(Reversed(Tail(s)), s[1])

\* isinstance(x, Iterable) for the containers that are neither an ndarray
\* nor a DataFrame.
IsIterable(type) == type \in {"list", "tuple"}

\* A plausible slip: the chunk results are combined last to first.
merge_reversed(ps) ==
    IF ps[1].type \in {"ndarray", "DataFrame"}
    THEN [type |-> ps[1].type, items |-> ItemsOf(Reversed(ps))]
    ELSE IF IsIterable(ps[1].type)
    THEN [type |-> "list", items |-> ItemsOf(Reversed(ps))]
    ELSE [type |-> "unbound", items |-> <<>>]

\* Lines 221-226: np.concatenate / pd.concat / list(concat(parts)), chosen by
\* the type of parts[0]; any other Iterable becomes a list, and nothing is
\* bound when parts[0] is not an Iterable at all.
merge(ps) ==
    IF ps[1].type = "ndarray"
    THEN [type |-> "ndarray", items |-> ItemsOf(ps)]
    ELSE IF ps[1].type = "DataFrame"
    THEN [type |-> "DataFrame", items |-> ItemsOf(ps)]
    ELSE IF IsIterable(ps[1].type)
    THEN [type |-> "list", items |-> ItemsOf(ps)]
    ELSE [type |-> "unbound", items |-> <<>>]

\* Lines 211-216: split the expression and plan the partitions.
DownSplit ==
    /\ call = "compute_down"
    /\ pc = "split"
    /\ pending' = DOMAIN partitions(Len(data), chunksize)
    /\ pc' = "map"
    /\ UNCHANGED <<call, data, chunksize, expr, env, start, yielded, acc,
                   completed, parts, intermediate, trace, outcome>>

\* The map strategy evaluates compute_chunk on one partition.
DownEvalChunk ==
    /\ call = "compute_down"
    /\ pc = "map"
    /\ \E i \in pending :
          /\ MayEvaluate(env.map, env.python, i, pending)
          /\ completed' = Append(completed,
                 [idx |-> i,
                  res |-> compute_chunk(data, expr.op, env.rtype,
                                        partitions(Len(data), chunksize)[i])])
          /\ pending' = pending \ {i}
    /\ UNCHANGED <<call, pc, data, chunksize, expr, env, start, yielded, acc,
                   parts, intermediate, trace, outcome>>

\* The map strategy returns: parts is bound.  A lazy map returns at once.
DownMapReturn ==
    /\ call = "compute_down"
    /\ pc = "map"
    /\ IsLazy(env.map, env.python) \/ pending = {}
    /\ parts' = MapReturns(env.map, env.python, completed)
    /\ pc' = "merge"
    /\ UNCHANGED <<call, data, chunksize, expr, env, start, yielded, acc,
                   pending, completed, intermediate, trace, outcome>>

\* Lines 221-226.  parts[0] on a map object is a TypeError, on an empty
\* list an IndexError.
DownMerge ==
    /\ call = "compute_down"
    /\ pc = "merge"
    /\ IF parts.kind = "map"
       THEN /\ outcome' = Raise("TypeError")
            /\ pc' = "done"
            /\ UNCHANGED intermediate
       ELSE IF parts.items = <<>>
       THEN /\ outcome' = Raise("IndexError")
            /\ pc' = "done"
            /\ UNCHANGED intermediate
       ELSE IF merge(parts.items).type = "unbound"
       THEN /\ outcome' = Raise("UnboundLocalError")
            /\ pc' = "done"
            /\ UNCHANGED intermediate
       ELSE /\ intermediate' = merge(parts.items)
            /\ pc' = "agg"
            /\ UNCHANGED outcome
    /\ UNCHANGED <<call, data, chunksize, expr, env, start, yielded, acc,
                   pending, completed, parts, trace>>

\* Line 228: return compute(agg_expr, {agg: intermediate}).
DownAggregate ==
    /\ call = "compute_down"
    /\ pc = "agg"
    /\ outcome' = Return(agg_expr(expr.op, intermediate.items), 0)
    /\ pc' = "done"
    /\ UNCHANGED <<call, data, chunksize, expr, env, start, yielded, acc,
                   pending, completed, parts, intermediate, trace>>

DownOps == {"sum", "count", "nunique", "elemwise"}
ResultTypes == {"ndarray", "DataFrame", "list", "tuple"}

InitDown ==
    /\ call = "compute_down"
    /\ pc = "split"
    /\ data \in Datasets \cup {Scenario5}
    /\ chunksize \in ChunkSizes
    /\ expr \in [op : DownOps, keepdims : {FALSE}, unbiased : {0}]
    /\ env \in [avail : {0}, map : MapStrategies, python : PythonVersions,
                rtype : ResultTypes]
    /\ start = 0
    /\ yielded = <<>>
    /\ acc = PyNum(0)
    /\ pending = {}
    /\ completed = <<>>
    /\ parts = NoParts
    /\ intermediate = <<>>
    /\ trace = <<>>
    /\ outcome = NoOutcome

NextDown ==
    \/ DownSplit
    \/ DownEvalChunk
    \/ DownMapReturn
    \/ DownMerge
    \/ DownAggregate

SpecDown == InitDown /\ [][NextDown]_vars

\* The chunk results of the call, in partition order.
ChunkResults ==
    [i \in DOMAIN partitions(Len(data), chunksize) |->
        compute_chunk(data, expr.op, env.rtype, partitions(Len(data), chunksize)[i])]

Merged ==
    /\ call = "compute_down" /\ pc \in {"agg", "done"}
    /\ parts.kind = "list" /\ parts.items # <<>>

(***************************************************************************)
(* C2: for every dataset and chunk size the chunked pipeline returns, for  *)
(* sum, count and nunique, the value of the direct computation over the    *)
(* whole dataset (hence the same value for any two chunk sizes).           *)
(***************************************************************************)
C2_ChunkedEqualsDirect ==
    (call = "compute_down" /\ pc = "done" /\ expr.op \in {"sum", "count", "nunique"}) =>
        outcome = Return(Direct(expr.op, data), 0)

\* The part of C2 that the code does satisfy: every non-empty dataset, when
\* map returns a list.
ChunkedEqualsDirectNonEmpty ==
    (call = "compute_down" /\ pc = "done" /\ data # <<>> /\ parts.kind = "list"
        /\ expr.op \in {"sum", "count", "nunique"}) =>
        outcome = Return(Direct(expr.op, data), 0)

(***************************************************************************)
(* C3 as stated: whatever order the map strategy returns the chunk results *)
(* in, the intermediate handed to the aggregate expression is their        *)
(* combination in partition order.                                         *)
(***************************************************************************)
C3_AlwaysPartitionOrder ==
    Merged => intermediate.items = ItemsOf(ChunkResults)

\* The part of C3 that the code does satisfy: compute_down merges what map
\* returned, in the order map returned it, so a strategy that returns a list
\* in partition order, whatever order it evaluated the chunks in, gives the
\* intermediate in partition order.
MergesAsReturned ==
    Merged =>
        /\ intermediate.items = ItemsOf(parts.items)
        /\ (env.map # "unordered_map") =>
              /\ parts.items = ChunkResults
              /\ intermediate.items = ItemsOf(ChunkResults)

(***************************************************************************)
(* C4: on an empty source the pipeline does not fail in the merge step;    *)
(* count and sum over the empty source return 0.                           *)
(***************************************************************************)
C4_EmptyReturnsZero ==
    (call = "compute_down" /\ pc = "done" /\ data = <<>> /\ expr.op \in {"sum", "count"}) =>
        (outcome.status = "value" /\ outcome.val = 0)

(***************************************************************************)
(* C9 as stated: the merge of k >= 1 chunk results of one shape is their   *)
(* concatenation in list order, and a list of exactly one result merges to *)
(* that result unchanged, for each merge shape.                            *)
(***************************************************************************)
C9_MergeIdentity ==
    Merged =>
        /\ intermediate.items = ItemsOf(parts.items)
        /\ (Len(parts.items) = 1 => intermediate = parts.items[1])

(***************************************************************************)
(* C9 amended: the merge of k >= 1 chunk results of one shape holds their  *)
(* elements concatenated in list order, by the strategy the first result's *)
(* type selects: an ndarray for ndarrays, a DataFrame for DataFrames, and  *)
(* always a list for any other iterable.  A list of exactly one result     *)
(* merges to that result's elements with no extra level of wrapping; it is *)
(* the result unchanged for an ndarray, a DataFrame or a list, and a list  *)
(* of the same elements for any other iterable such as a tuple.            *)
(***************************************************************************)
C9_MergeConcatenates ==
    Merged =>
        /\ intermediate.type = (IF parts.items[1].type \in {"ndarray", "DataFrame"}
                                THEN parts.items[1].type ELSE "list")
        /\ intermediate.items = ItemsOf(parts.items)
        /\ Len(intermediate.items)
              = SeqSum([i \in 1..Len(parts.items) |-> Len(parts.items[i].items)])
        /\ (Len(parts.items) = 1 =>
              /\ intermediate.items = parts.items[1].items
              /\ (parts.items[1].type # "tuple" => intermediate = parts.items[1]))

C9_Witness ==
    /\ Merged
    /\ Len(parts.items) = 1
    /\ parts.items[1].type = "tuple"
    /\ Len(parts.items[1].items) >= 2
    /\ intermediate = [type |-> "list", items |-> parts.items[1].items]

(***************************************************************************)
(* The memory policy used by the compute_up handlers.                      *)
(***************************************************************************)
nbytes(xs) == Len(xs) * ItemSize

\* data.nbytes < available_memory() / 4, under true division
FitsInMemory(n, avail) == 4 * n < avail

AvailableMemory == 0..MaxAvail

(***************************************************************************)
(* The cheap direct path compute_down(Head, ...) (lines 45-58) and the     *)
(* dispatch between it and compute_down(Expr, ...) (line 209).  An         *)
(* expression is the sequence of its node kinds from the root to the leaf. *)
(***************************************************************************)
Cheap == {"Head", "ElemWise", "Selection", "Distinct", "Symbol"}
InnerKinds == {"Head", "ElemWise", "Selection", "Distinct", "sum", "By"}

Paths == {Append(p, "Symbol") : p \in SeqsUpTo(InnerKinds, MaxDepth)}

\* A plausible slip: only the root is inspected.
IsCheapRootOnly(path) == path[1] \in Cheap

\* all(isinstance(e, Cheap) for e in path(expr, leaf))
IsCheapPath(path) == \A i \in 1..Len(path) : path[i] \in Cheap

\* @dispatch(Head, ...): the handler is selected for expressions whose root
\* is a Head, ahead of the one registered for Expr.
HeadHandlerSelected(path) == path[1] = "Head"

\* compute_down(Head, ...): compute on into(Iterator, data), or decline.
compute_down_Head ==
    /\ call = "dispatch"
    /\ pc = "dispatch"
    /\ HeadHandlerSelected(expr)
    /\ IF IsCheapPath(expr)
       THEN /\ trace' = Append(trace, "direct")
            /\ outcome' = Return("direct", 0)
            /\ pc' = "done"
       ELSE /\ trace' = Append(trace, "MDNotImplementedError")
            /\ pc' = "next"
            /\ UNCHANGED outcome
    /\ UNCHANGED <<call, data, chunksize, expr, env, start, yielded, acc, pending,
                   completed, parts, intermediate>>

\* compute_down(Expr, ...): reached directly when the root is not a Head, or
\* as the next candidate after the Head handler declined.
compute_down_Expr ==
    /\ call = "dispatch"
    /\ \/ pc = "dispatch" /\ ~HeadHandlerSelected(expr)
       \/ pc = "next"
    /\ trace' = Append(trace, "chunked")
    /\ outcome' = Return("chunked", 0)
    /\ pc' = "done"
    /\ UNCHANGED <<call, data, chunksize, expr, env, start, yielded, acc, pending,
                   completed, parts, intermediate>>

InitDispatch ==
    /\ call = "dispatch"
    /\ pc = "dispatch"
    /\ expr \in Paths
    /\ data = <<>>
    /\ chunksize = 1
    /\ env = NoEnv
    /\ start = 0
    /\ yielded = <<>>
    /\ acc = PyNum(0)
    /\ pending = {}
    /\ completed = <<>>
    /\ parts = NoParts
    /\ intermediate = <<>>
    /\ trace = <<>>
    /\ outcome = NoOutcome

NextDispatch ==
    \/ compute_down_Head
    \/ compute_down_Expr

SpecDispatch == InitDispatch /\ [][NextDispatch]_vars

(***************************************************************************)
(* C7 as stated: the direct path runs exactly when every node on the path  *)
(* is cheap; otherwise the direct path signals MDNotImplementedError and   *)
(* execution falls through to the chunked compute_down.                    *)
(***************************************************************************)
EveryNodeCheap ==
    \A i \in 1..Len(expr) :
        expr[i] \in {"Head", "ElemWise", "Selection", "Distinct", "Symbol"}

C7_DirectIffCheap ==
    (call = "dispatch" /\ pc = "done") =>
        /\ (trace = <<"direct">>) <=> EveryNodeCheap
        /\ ~EveryNodeCheap => trace = <<"MDNotImplementedError", "chunked">>

(***************************************************************************)
(* C7 amended: the direct path runs exactly when the root is a Head and    *)
(* every node on the path is cheap; a Head root over a non-cheap node      *)
(* signals MDNotImplementedError and falls through to the chunked          *)
(* compute_down; any other root goes to the chunked compute_down without   *)
(* the direct handler being entered, cheap path or not.                    *)
(***************************************************************************)
C7_DirectIffHeadAndCheap ==
    (call = "dispatch" /\ pc = "done") =>
        /\ (trace = <<"direct">>) <=> (expr[1] = "Head" /\ EveryNodeCheap)
        /\ (expr[1] = "Head" /\ ~EveryNodeCheap)
              => trace = <<"MDNotImplementedError", "chunked">>
        /\ expr[1] # "Head" => trace = <<"chunked">>

C7_Witness ==
    /\ call = "dispatch" /\ pc = "done"
    /\ expr = <<"Head", "Selection", "ElemWise", "Symbol">>
    /\ trace = <<"direct">>

(***************************************************************************)
(* compute_up(Selection, ctable) (lines 61-77): two definitions under one  *)
(* signature.                                                              *)
(***************************************************************************)
SelectionDefs == <<"where", "iterator">>       \* in source order: line 62, line 74

\* A plausible slip: the first registration is the one kept.
RegisteredFirst(defs) == defs[1]

\* The dispatcher keeps one function per signature: a later registration
\* under the same signature replaces the earlier one.
Registered(defs) == defs[Len(defs)]

VecOutcomes == {"ok", "NotImplementedError", "NameError", "AttributeError", "TypeError"}

\* Lines 62-70: data.where(s), falling back on three exception types.
selection_where(fits, vec) ==
    IF fits THEN Return("inmem", 0)
    ELSE IF vec = "ok" THEN Return("vectorized", 0)
    ELSE IF vec \in {"NotImplementedError", "NameError", "AttributeError"}
    THEN Return("streaming", 0)
    ELSE Raise(vec)

\* Lines 74-77: in memory, or the iterator.
selection_iterator(fits, vec) ==
    IF fits THEN Return("inmem", 0) ELSE Return("streaming", 0)

selection_handler(fits, vec) ==
    IF Registered(SelectionDefs) = "where"
    THEN selection_where(fits, vec) ELSE selection_iterator(fits, vec)

\* The rows a predicate `x > threshold` selects; every evaluator selects these.
SelectedRows(xs, threshold) == SelectSeq(xs, LAMBDA x : x > threshold)

compute_up_Selection ==
    /\ call = "selection"
    /\ pc = "call"
    /\ LET r == selection_handler(FitsInMemory(nbytes(data), env.avail), env.vec)
       IN  /\ trace' = IF r.status = "value" THEN Append(trace, r.val) ELSE trace
           /\ outcome' = IF r.status = "value"
                         THEN Return(SelectedRows(data, expr.threshold), 0) ELSE r
    /\ pc' = "done"
    /\ UNCHANGED <<call, data, chunksize, expr, env, start, yielded, acc, pending,
                   completed, parts, intermediate>>

InitSelection ==
    /\ call = "selection"
    /\ pc = "call"
    /\ data \in Datasets
    /\ expr \in [op : {"Selection"}, keepdims : {FALSE}, unbiased : {0},
                 threshold : 0..MaxVal]
    /\ env \in [avail : AvailableMemory, vec : VecOutcomes]
    /\ chunksize = 1
    /\ start = 0
    /\ yielded = <<>>
    /\ acc = PyNum(0)
    /\ pending = {}
    /\ completed = <<>>
    /\ parts = NoParts
    /\ intermediate = <<>>
    /\ trace = <<>>
    /\ outcome = NoOutcome

NextSelection == compute_up_Selection

SpecSelection == InitSelection /\ [][NextSelection]_vars

(***************************************************************************)
(* C6: a failure of the vectorized predicate path, whatever its cause, is  *)
(* never surfaced: every Selection on a table ends with the in-memory, the *)
(* vectorized or the streaming result, all selecting the same rows, and a  *)
(* predicate that cannot be vectorized is evaluated by streaming.          *)
(***************************************************************************)
C6_SelectionNeverFails ==
    (call = "selection" /\ pc = "done") =>
        /\ outcome.status = "value"
        /\ trace \in {<<"inmem">>, <<"vectorized">>, <<"streaming">>}
        /\ outcome.val = SelectedRows(data, expr.threshold)
        /\ (trace = <<"inmem">>) <=> FitsInMemory(nbytes(data), env.avail)
        /\ (~FitsInMemory(nbytes(data), env.avail) /\ env.vec # "ok")
              => trace = <<"streaming">>

C6_Witness ==
    /\ call = "selection" /\ pc = "done"
    /\ env.vec = "TypeError"
    /\ ~FitsInMemory(nbytes(data), env.avail)
    /\ trace = <<"streaming">>
    /\ outcome.status = "value" /\ outcome.val # <<>>

(***************************************************************************)
(* compute_up(Reduction, carray/ctable) (lines 160-167).                   *)
(***************************************************************************)
RECURSIVE SeqMax(_)
SeqMax(s) == IF Len(s) = 1 THEN s[1] ELSE Max(s[1], SeqMax(Tail(s)))

RECURSIVE SeqMin(_)
SeqMin(s) == IF Len(s) = 1 THEN s[1] ELSE Min(s[1], SeqMin(Tail(s)))

\* The reduction as evaluated by the handler the call is forwarded to (on
\* data[:] or on ChunkIndexable(data)): that handler honours keepdims itself.
reduce_inner(e, xs) ==
    KeepDims(e, Return(IF e.op = "max" THEN SeqMax(xs) ELSE SeqMin(xs), 0))

compute_up_Reduction ==
    /\ call = "reduction"
    /\ pc = "call"
    /\ trace' = (IF FitsInMemory(nbytes(data), env.avail)
                 THEN <<"inmem">> ELSE <<>>) \o <<"chunked">>
    /\ outcome' = KeepDims(expr, reduce_inner(expr, data))
    /\ pc' = "done"
    /\ UNCHANGED <<call, data, chunksize, expr, env, start, yielded, acc, pending,
                   completed, parts, intermediate>>

InitReduction ==
    /\ call = "reduction"
    /\ pc = "call"
    /\ data \in Datasets \ {<<>>}
    /\ expr \in [op : {"max", "min"}, keepdims : BOOLEAN, unbiased : {0}]
    /\ env \in [avail : AvailableMemory]
    /\ chunksize = 1
    /\ start = 0
    /\ yielded = <<>>
    /\ acc = PyNum(0)
    /\ pending = {}
    /\ completed = <<>>
    /\ parts = NoParts
    /\ intermediate = <<>>
    /\ trace = <<>>
    /\ outcome = NoOutcome

NextReduction == compute_up_Reduction

SpecReduction == InitReduction /\ [][NextReduction]_vars

(***************************************************************************)
(* C10: a generic Reduction runs exactly one strategy, chosen by the       *)
(* memory check: the in-memory one when the data fits and the chunked one  *)
(* only when it does not; with keepdims the result is wrapped once.        *)
(***************************************************************************)
C10_ExactlyOneStrategy ==
    (call = "reduction" /\ pc = "done") =>
        /\ trace = (IF FitsInMemory(nbytes(data), env.avail)
                    THEN <<"inmem">> ELSE <<"chunked">>)
        /\ outcome.status = "value"
        /\ outcome.wraps = (IF expr.keepdims THEN 1 ELSE 0)

(***************************************************************************)
(* The whole backend: any one of the entry points.                         *)
(***************************************************************************)
Init == InitChunks \/ InitDown \/ InitDispatch \/ InitSelection \/ InitReduction

Next == NextChunks \/ NextDown \/ NextDispatch \/ NextSelection \/ NextReduction

Spec == Init /\ [][Next]_vars

====
